---- MODULE Spec2Model ----
(***************************************************************************)
(* A model of pyusbmuxd: the device scanner (UsbManager, USB), the mode    *)
(* classifier and mode switch (IDevice.mode), Mode.create_from_name and    *)
(* the set-mode command of the CLI.                                        *)
(*                                                                         *)
(* The host USB stack is the environment.  What it reports for a device    *)
(* (vendor and product ID, serial number, configuration descriptors) is    *)
(* the variable usb; the devices find(find_all=True) yields, in order, is  *)
(* the variable attached.  Attribute reads of a usb.core.Device are reads  *)
(* of usb; the calls the program makes on a device (configurations(),      *)
(* ctrl_transfer, set_configuration, detach_kernel_driver) are appended to *)
(* the log io of the running top-level call.  Python's indices start at 0, *)
(* TLA+'s at 1: configurations()[4] is configurations[5].                  *)
(***************************************************************************)
EXTENDS Integers, Sequences, FiniteSets, TLC

VARIABLES
    usb,          \* device id -> what the USB stack reports for that device
    attached,     \* the device ids find(find_all=True) yields, in order
    devices,      \* UsbManager.devices: serial number -> IDevice handle
    next_handle,  \* identity of the next IDevice object constructed
    io,           \* calls made on devices by the current top-level call
    last,         \* the most recent step: the call, its inputs, its outcome
    call          \* the multi-step call in progress, if any: position and locals

vars == <<usb, attached, devices, next_handle, io, last, call>>

---------------------------------------------------------------------------
(* Bounds of the model.                                                    *)

\* most configurations a device reports (the classifier separates <=4, 5, >5)
MaxConfigs == 6
\* most interfaces in the configuration the classifier walks
MaxIfaces == 3
\* most devices on the bus in the scanner-filter specification
MaxScanList == 2
\* most IDevice objects constructed in one behaviour
MaxHandles == 4

---------------------------------------------------------------------------
(* Program constants (usb_manager.py lines 9-39).                          *)

INTERFACE_CLASS == 255
INTERFACE_SUBCLASS == 254
INTERFACE_PROTOCOL == 2

VID_APPLE == 1452
PID_RANGE_LOW == 4752
PID_RANGE_MAX == 4783
PID_APPLE_T2_COPROCESSOR == 34304
PID_APPLE_SILICON_RESTORE_LOW == 6401
PID_APPLE_SILICON_RESTORE_MAX == 6405

APPLE_VEND_SPECIFIC_GET_MODE == 69
APPLE_VEND_SPECIFIC_SET_MODE == 82

RECURSIVE BitOr(_, _)
\* Python's a | b on non-negative integers
BitOr(a, b) ==
    IF a = 0 THEN b
    ELSE IF b = 0 THEN a
    ELSE (IF a % 2 = 1 \/ b % 2 = 1 THEN 1 ELSE 0) + 2 * BitOr(a \div 2, b \div 2)

\* Python's a << n
ShiftLeft(a, n) == a * (2 ^ n)

\* LibUSBRequestType.VENDOR = 0x02 << 5
LibUSBRequestType_VENDOR == ShiftLeft(2, 5)

\* LibUSBEndpointDirection.IN and .OUT
LibUSBEndpointDirection_IN == 128
LibUSBEndpointDirection_OUT == 0

\* LibUSBRequestRecipient.DEVICE
LibUSBRequestRecipient_DEVICE == 0

---------------------------------------------------------------------------
(* class Mode(IntEnum): the members in definition order.                   *)

INITIAL == [name |-> "INITIAL", value |-> 1]
VALERIA == [name |-> "VALERIA", value |-> 2]
CDC_NCM == [name |-> "CDC_NCM", value |-> 3]

Mode == <<INITIAL, VALERIA, CDC_NCM>>

\* Python's None in a slot that otherwise holds a Mode
None == [name |-> "None", value |-> 0]

\* a returned value, and a raised exception
Return(v) == [kind |-> "return", value |-> v, exc |-> "-"]
Raise(e) == [kind |-> "raise", value |-> None, exc |-> e]

RECURSIVE create_from_name_loop(_, _)
\* the for loop of create_from_name from member i on
create_from_name_loop(i, name) ==
    IF i > Len(Mode) THEN Raise("ValueError")
    ELSE IF Mode[i].name = name THEN Return(Mode[i])
    ELSE create_from_name_loop(i + 1, name)

\* a create_from_name that falls off the loop without raising
create_from_name_noraise(name) ==
    LET r == create_from_name_loop(1, name)
    IN  IF r.kind = "raise" THEN Return(None) ELSE r

\* Mode.create_from_name(name)
create_from_name(name) == create_from_name_loop(1, name)

---------------------------------------------------------------------------
(* IDevice.mode, the getter.                                               *)

Interface(c, s, p) ==
    [bInterfaceClass |-> c, bInterfaceSubClass |-> s, bInterfaceProtocol |-> p]

RECURSIVE mode_loop(_, _, _)
\* the for loop over config.interfaces() from interface i on, flags so far
mode_loop(interfaces, i, flags) ==
    IF i > Len(interfaces) THEN flags
    ELSE
        LET interface == interfaces[i]
            f1 == IF interface.bInterfaceClass = INTERFACE_CLASS
                     /\ interface.bInterfaceSubClass = 42
                     /\ interface.bInterfaceProtocol = 255
                  THEN [flags EXCEPT !.has_valeria = TRUE] ELSE flags
            f2 == IF interface.bInterfaceClass = 2
                     /\ interface.bInterfaceSubClass = 13
                  THEN [f1 EXCEPT !.has_cdc_ncm = TRUE] ELSE f1
            f3 == IF interface.bInterfaceClass = INTERFACE_CLASS
                     /\ interface.bInterfaceSubClass = INTERFACE_SUBCLASS
                     /\ interface.bInterfaceProtocol = INTERFACE_PROTOCOL
                  THEN [f2 EXCEPT !.has_usbmux = TRUE] ELSE f2
        IN  mode_loop(interfaces, i + 1, f3)

\* a getter that tests the CDC-NCM pair before the Valeria pair
mode_get_cdc_first(configurations) ==
    LET num_configurations == Len(configurations)
    IN  IF num_configurations <= 4 THEN INITIAL
        ELSE IF num_configurations # 5 THEN None
        ELSE
            LET config == configurations[5]
                f == mode_loop(config.interfaces, 1,
                        [has_valeria |-> FALSE, has_cdc_ncm |-> FALSE,
                         has_usbmux |-> FALSE])
            IN  IF f.has_cdc_ncm /\ f.has_usbmux THEN CDC_NCM
                ELSE IF f.has_valeria /\ f.has_usbmux THEN VALERIA
                ELSE None

\* the value the getter returns for the configurations the device reports
mode_get(configurations) ==
    LET num_configurations == Len(configurations)
    IN  IF num_configurations <= 4 THEN INITIAL
        ELSE IF num_configurations # 5 THEN None
        ELSE
            LET config == configurations[5]
                f == mode_loop(config.interfaces, 1,
                        [has_valeria |-> FALSE, has_cdc_ncm |-> FALSE,
                         has_usbmux |-> FALSE])
            IN  IF f.has_valeria /\ f.has_usbmux THEN VALERIA
                ELSE IF f.has_cdc_ncm /\ f.has_usbmux THEN CDC_NCM
                ELSE None

\* the calls the getter makes on the device: configurations() at line 91,
\* and again at line 100 when it reports exactly 5 configurations
mode_get_io(dev, configurations) ==
    LET c == [op |-> "configurations", dev |-> dev]
    IN  IF Len(configurations) = 5 THEN <<c, c>> ELSE <<c>>

\* a getter that answers with the mode the previous call requested of the
\* device, when that call was a set-mode transfer to it
IDevice_mode_cached(self) ==
    IF Len(io) = 1 /\ io[1].op = "ctrl_transfer"
       /\ io[1].dev = self.usb_device /\ io[1].status = "ok"
       /\ io[1].bRequest = APPLE_VEND_SPECIFIC_SET_MODE
    THEN Mode[io[1].wIndex]
    ELSE mode_get(usb[self.usb_device].configurations)

\* IDevice.mode read on a handle: the getter applied to what
\* self.usb_device.configurations() reports at the time of the call
IDevice_mode(self) == mode_get(usb[self.usb_device].configurations)

---------------------------------------------------------------------------
(* IDevice.mode, the setter, and _submit_vendor_specific.                  *)

\* usb_device.ctrl_transfer(...) as the device sees it; status is what the
\* transport reports for it: "ok", or the failure
ctrl_transfer(dev, request_type, b_request, w_value, w_index, data_or_w_length, timeout, status) ==
    [op |-> "ctrl_transfer", dev |-> dev, bmRequestType |-> request_type,
     bRequest |-> b_request, wValue |-> w_value, wIndex |-> w_index,
     data_or_wLength |-> data_or_w_length, timeout |-> timeout,
     status |-> status]

\* a _submit_vendor_specific that sets the OUT direction bit
_submit_vendor_specific_out(dev, b_request, w_value, w_index, data_or_w_length, timeout, status) ==
    ctrl_transfer(dev,
        BitOr(BitOr(LibUSBRequestType_VENDOR, LibUSBEndpointDirection_OUT),
              LibUSBRequestRecipient_DEVICE),
        b_request, w_value, w_index, data_or_w_length, timeout, status)

\* IDevice._submit_vendor_specific: the one transfer it submits
_submit_vendor_specific(dev, b_request, w_value, w_index, data_or_w_length, timeout, status) ==
    ctrl_transfer(dev,
        BitOr(BitOr(LibUSBRequestType_VENDOR, LibUSBEndpointDirection_IN),
              LibUSBRequestRecipient_DEVICE),
        b_request, w_value, w_index, data_or_w_length, timeout, status)

\* a setter that submits the transfer again when the first attempt fails
mode_set_retry(self, value, status) ==
    LET t == _submit_vendor_specific(self.usb_device, APPLE_VEND_SPECIFIC_SET_MODE,
                 0, value.value, 1, "None", status)
    IN  IF status = "ok" THEN [calls |-> <<t>>, result |-> Return(None)]
        ELSE [calls |-> <<t, t>>, result |-> Raise(status)]

\* the setter: the calls it makes on the device and what the caller gets.
\* w_value and timeout keep the defaults of _submit_vendor_specific (0, None);
\* a failure the transport reports is not caught
mode_set(self, value, status) ==
    LET t == _submit_vendor_specific(self.usb_device, APPLE_VEND_SPECIFIC_SET_MODE,
                 0, value.value, 1, "None", status)
    IN  [calls |-> <<t>>,
         result |-> IF status = "ok" THEN Return(None) ELSE Raise(status)]

\* what the transport may report for a control transfer
TransferStatus == {"ok", "stall", "timeout", "disconnected"}

---------------------------------------------------------------------------
(* IDevice.__init__ and _set_valid_configuration.                          *)

\* whether a configuration holds an interface the disabled selection path
\* would take (class test OR-ed with the subclass/protocol pair, line 155)
HasSelectable(config) ==
    \E i \in 1..Len(config.interfaces) :
        LET interface == config.interfaces[i]
        IN  interface.bInterfaceClass = INTERFACE_CLASS
            \/ (interface.bInterfaceSubClass = INTERFACE_SUBCLASS
                /\ interface.bInterfaceProtocol = INTERFACE_PROTOCOL)

\* _set_valid_configuration without the return of line 149: it sets every
\* configuration that has a selectable interface and raises when none has
_set_valid_configuration_enabled(dev) ==
    LET cs == usb[dev].configurations
        hits == {i \in 1..Len(cs) : HasSelectable(cs[i])}
        set_for[i \in 0..Len(cs)] ==
            IF i = 0 THEN <<>>
            ELSE IF i \in hits
                 THEN Append(set_for[i - 1],
                          [op |-> "set_configuration", dev |-> dev, config |-> i])
                 ELSE set_for[i - 1]
    IN  [calls |-> set_for[Len(cs)],
         exc |-> IF hits = {} THEN "PyUsbMuxException" ELSE "-"]

\* IDevice._set_valid_configuration: returns at once (line 149)
_set_valid_configuration(dev) == [calls |-> <<>>, exc |-> "-"]

\* IDevice(usb_device): the object with identity hid, the calls its
\* construction makes on the device and the exception it raises, if any
IDevice(usb_device, hid) ==
    LET r == _set_valid_configuration(usb_device)
    IN  [handle |-> [hid |-> hid, usb_device |-> usb_device],
         calls |-> r.calls, exc |-> r.exc]

---------------------------------------------------------------------------
(* UsbManager.                                                             *)

\* d[k] = v on a dict
Put(d, k, v) == [x \in (DOMAIN d) \cup {k} |-> IF x = k THEN v ELSE d[x]]

\* a _handle_device whose range tests exclude the ends of the ranges
UsbManager_handle_device_open(st, device) ==
    LET idVendor == usb[device].idVendor
        idProduct == usb[device].idProduct
    IN  IF idVendor # VID_APPLE THEN st
        ELSE IF (idProduct # PID_APPLE_T2_COPROCESSOR)
                /\ ((idProduct <= PID_APPLE_SILICON_RESTORE_LOW)
                    \/ (idProduct >= PID_APPLE_SILICON_RESTORE_MAX))
                /\ ((idProduct <= PID_RANGE_LOW)
                    \/ (idProduct >= PID_RANGE_MAX))
        THEN st
        ELSE
            LET obj == IDevice(device, st.next_handle)
            IN  [st EXCEPT
                    !.devices = Put(@, usb[device].serial_number, obj.handle),
                    !.next_handle = @ + 1]

\* a _handle_device that leaves the entry of a serial it already holds
UsbManager_handle_device_keep(st, device) ==
    IF usb[device].idVendor # VID_APPLE THEN st
    ELSE IF usb[device].serial_number \in DOMAIN st.devices
    THEN [st EXCEPT !.next_handle = @ + 1]
    ELSE [st EXCEPT
            !.devices = Put(@, usb[device].serial_number,
                            IDevice(device, st.next_handle).handle),
            !.next_handle = @ + 1]

\* UsbManager._handle_device on the manager state st: the registry, the
\* next object identity, the calls made so far, the exception in flight
UsbManager_handle_device(st, device) ==
    LET idVendor == usb[device].idVendor
        idProduct == usb[device].idProduct
    IN  IF idVendor # VID_APPLE THEN st
        ELSE IF (idProduct # PID_APPLE_T2_COPROCESSOR)
                /\ ((idProduct < PID_APPLE_SILICON_RESTORE_LOW)
                    \/ (idProduct > PID_APPLE_SILICON_RESTORE_MAX))
                /\ ((idProduct < PID_RANGE_LOW)
                    \/ (idProduct > PID_RANGE_MAX))
        THEN st
        ELSE
            LET obj == IDevice(device, st.next_handle)
            IN  IF obj.exc # "-"
                THEN [st EXCEPT !.io = @ \o obj.calls, !.exc = obj.exc,
                                !.next_handle = @ + 1]
                ELSE [st EXCEPT
                        !.devices = Put(@, usb[device].serial_number, obj.handle),
                        !.io = @ \o obj.calls,
                        !.next_handle = @ + 1]

RECURSIVE update_device_list_loop(_, _, _)
\* the for loop of update_device_list from device i on; an exception ends it
update_device_list_loop(st, found, i) ==
    IF i > Len(found) \/ st.exc # "-" THEN st
    ELSE update_device_list_loop(UsbManager_handle_device(st, found[i]), found, i + 1)

\* an update_device_list that rebuilds the registry from nothing
update_device_list_rebuild(st, found) ==
    IF found.is_none THEN [st EXCEPT !.devices = <<>>]
    ELSE update_device_list_loop([st EXCEPT !.devices = <<>>], found.items, 1)

\* UsbManager.update_device_list; found is what find(find_all=True) gave:
\* None, or the devices in order
update_device_list(st, found) ==
    IF found.is_none THEN st
    ELSE update_device_list_loop(st, found.items, 1)

\* find(find_all=True): the attached devices; None stands for "no result"
\* and is possible only when nothing is attached
FindResults ==
    {[is_none |-> FALSE, items |-> attached]}
    \cup (IF attached = <<>> THEN {[is_none |-> TRUE, items |-> <<>>]} ELSE {})

---------------------------------------------------------------------------
(* class USB (usbmux.py).                                                  *)

\* USB._submit_vendor_specific: the one transfer it submits
USB_submit_vendor_specific(device, bRequest, wValue, wIndex, data_or_wLength, timeout, status) ==
    ctrl_transfer(device,
        BitOr(BitOr(LibUSBRequestType_VENDOR, LibUSBEndpointDirection_IN),
              LibUSBRequestRecipient_DEVICE),
        bRequest, wValue, wIndex, data_or_wLength, timeout, status)

\* USB._handle_device: the same filter, then a get-mode transfer of length 4
\* whose answer is printed; statuses[device] is what the transport reports
USB_handle_device(st, device, statuses) ==
    LET idVendor == usb[device].idVendor
        idProduct == usb[device].idProduct
    IN  IF idVendor # VID_APPLE THEN st
        ELSE IF (idProduct # PID_APPLE_T2_COPROCESSOR)
                /\ ((idProduct < PID_APPLE_SILICON_RESTORE_LOW)
                    \/ (idProduct > PID_APPLE_SILICON_RESTORE_MAX))
                /\ ((idProduct < PID_RANGE_LOW)
                    \/ (idProduct > PID_RANGE_MAX))
        THEN st
        ELSE
            LET a == USB_submit_vendor_specific(device, APPLE_VEND_SPECIFIC_GET_MODE,
                         0, 0, 4, "None", statuses[device])
            IN  [st EXCEPT !.io = Append(@, a),
                           !.exc = IF statuses[device] = "ok" THEN "-"
                                   ELSE statuses[device]]

RECURSIVE discover_loop(_, _, _, _)
\* the for loop of discover from device i on; an exception ends it
discover_loop(st, found, i, statuses) ==
    IF i > Len(found) \/ st.exc # "-" THEN st
    ELSE discover_loop(USB_handle_device(st, found[i], statuses), found, i + 1, statuses)

\* USB.discover
discover(st, found, statuses) ==
    IF found.is_none THEN st
    ELSE discover_loop(st, found.items, 1, statuses)

---------------------------------------------------------------------------
(* Configuration descriptors the environment may report.                   *)

Config(interfaces) == [interfaces |-> interfaces]

UsbmuxIf == Interface(255, 254, 2)
ValeriaIf == Interface(255, 42, 255)
CdcNcmIf == Interface(2, 13, 0)

\* n configurations, each holding the interfaces ifs
Plain(n, ifs) == [i \in 1..n |-> Config(ifs)]

\* the descriptors of a device in each mode of the docstring of class Mode,
\* and of a device whose fifth configuration has the usbmux interface alone
InitialDesc == Plain(4, <<UsbmuxIf>>)
ValeriaDesc == Plain(4, <<UsbmuxIf>>) \o <<Config(<<UsbmuxIf, ValeriaIf>>)>>
CdcNcmDesc == Plain(4, <<UsbmuxIf>>) \o <<Config(<<CdcNcmIf, UsbmuxIf>>)>>
BareDesc == Plain(4, <<UsbmuxIf>>) \o <<Config(<<UsbmuxIf>>)>>

DescPresets == {InitialDesc, ValeriaDesc, CdcNcmDesc, BareDesc}

---------------------------------------------------------------------------
(* The environment: the bus and the descriptors devices report.            *)

Device(v, p, s, cs) ==
    [idVendor |-> v, idProduct |-> p, serial_number |-> s, configurations |-> cs]

Range(f) == {f[i] : i \in DOMAIN f}

\* seq without its entries equal to x
Without(seq, x) == SelectSeq(seq, LAMBDA y : y # x)

Idle == [pc |-> "idle"]

\* the manager state update_device_list and discover run on
Manager(registry) ==
    [devices |-> registry, next_handle |-> next_handle, io |-> <<>>, exc |-> "-"]

Outcome(st) == IF st.exc = "-" THEN Return(None) ELSE Raise(st.exc)

\* a device is plugged in: find yields it after the ones already there
Attach ==
    /\ \E d \in (DOMAIN usb) \ Range(attached) :
          attached' = Append(attached, d)
    /\ last' = [op |-> "env"]
    /\ UNCHANGED <<usb, devices, next_handle, io, call>>

\* a device is unplugged
Detach ==
    /\ \E d \in Range(attached) : attached' = Without(attached, d)
    /\ last' = [op |-> "env"]
    /\ UNCHANGED <<usb, devices, next_handle, io, call>>

\* a device changes the configurations it reports, whatever the cause
OutOfBand ==
    /\ \E d \in DOMAIN usb : \E desc \in DescPresets :
          /\ desc # usb[d].configurations
          /\ usb' = [usb EXCEPT ![d].configurations = desc]
    /\ last' = [op |-> "env"]
    /\ UNCHANGED <<attached, devices, next_handle, io, call>>

---------------------------------------------------------------------------
(* Calls of the library.                                                   *)

\* UsbManager(): a manager with an empty registry
NewManager ==
    /\ call = Idle
    /\ devices' = <<>>
    /\ io' = <<>>
    /\ last' = [op |-> "UsbManager"]
    /\ UNCHANGED <<usb, attached, next_handle, call>>

\* manager.update_device_list()
Scan ==
    /\ call = Idle
    /\ next_handle + Len(attached) <= MaxHandles + 1
    /\ \E found \in FindResults :
          LET st == update_device_list(Manager(devices), found)
          IN  /\ devices' = st.devices
              /\ next_handle' = st.next_handle
              /\ io' = st.io
              /\ last' = [op |-> "update_device_list", found |-> found,
                          result |-> Outcome(st)]
    /\ UNCHANGED <<usb, attached, call>>

\* USB().discover()
Discover ==
    /\ call = Idle
    /\ \E found \in FindResults :
       \E bad \in Range(attached) \cup {0} :
       \E failure \in TransferStatus \ {"ok"} :
          LET statuses == [d \in Range(attached) |->
                              IF d = bad THEN failure ELSE "ok"]
              st == discover(Manager(<<>>), found, statuses)
          IN  /\ io' = st.io
              /\ last' = [op |-> "discover", found |-> found,
                          result |-> Outcome(st)]
    /\ UNCHANGED <<usb, attached, devices, next_handle, call>>

\* device.mode, read on a handle of the registry
ReadMode ==
    /\ call = Idle
    /\ \E s \in DOMAIN devices :
          LET self == devices[s]
          IN  /\ io' = mode_get_io(self.usb_device, usb[self.usb_device].configurations)
              /\ last' = [op |-> "mode_get", self |-> self,
                          result |-> Return(IDevice_mode(self))]
    /\ UNCHANGED <<usb, attached, devices, next_handle, call>>

\* device.mode = value, on a handle of the registry
SetMode ==
    /\ call = Idle
    /\ \E s \in DOMAIN devices : \E m \in Range(Mode) : \E status \in TransferStatus :
          LET self == devices[s]
              r == mode_set(self, m, status)
          IN  /\ io' = r.calls
              /\ last' = [op |-> "mode_set", self |-> self, value |-> m,
                          result |-> r.result]
    /\ UNCHANGED <<usb, attached, devices, next_handle, call>>

\* repr(device), line 139: the first read of self.mode
ReprTest ==
    /\ call = Idle
    /\ \E s \in DOMAIN devices :
          LET self == devices[s]
              v == IDevice_mode(self)
          IN  /\ io' = mode_get_io(self.usb_device, usb[self.usb_device].configurations)
              /\ last' = [op |-> "mode_get", self |-> self, result |-> Return(v)]
              /\ call' = [pc |-> "repr_139", self |-> self, first |-> v]
    /\ UNCHANGED <<usb, attached, devices, next_handle>>

\* repr(device), line 140: the second read of self.mode, when the first
\* was not None
ReprRead ==
    /\ call.pc = "repr_139"
    /\ call.first # None
    /\ LET self == call.self
           v == IDevice_mode(self)
       IN  /\ io' = io \o mode_get_io(self.usb_device, usb[self.usb_device].configurations)
           /\ last' = [op |-> "mode_get", self |-> self, result |-> Return(v)]
           /\ call' = [pc |-> "repr_140", self |-> self, first |-> v]
    /\ UNCHANGED <<usb, attached, devices, next_handle>>

\* repr(device), lines 140-144: .name of the second read, or 'Unknown', and
\* the string
ReprFormat ==
    /\ \/ call.pc = "repr_139" /\ call.first = None
       \/ call.pc = "repr_140"
    /\ LET self == call.self
           serial == usb[self.usb_device].serial_number
       IN  last' = [op |-> "repr", self |-> self,
                    result |->
                       IF call.pc = "repr_139"
                       THEN Return([SERIAL |-> serial, MODE |-> "Unknown"])
                       ELSE IF call.first = None THEN Raise("AttributeError")
                       ELSE Return([SERIAL |-> serial, MODE |-> call.first.name])]
    /\ call' = Idle
    /\ UNCHANGED <<usb, attached, devices, next_handle, io>>

\* Mode.create_from_name(name)
ModeNames ==
    {pre \o stem \o post :
        pre \in {"", " ", "Mode."},
        stem \in {"INITIAL", "VALERIA", "CDC_NCM", "initial", "Valeria",
                  "cdc_ncm", "CDC-NCM", "CDC_NC", "UNKNOWN", "None", "1", "2", ""},
        post \in {"", " ", "_", "S"}}

CreateFromName ==
    /\ call = Idle
    /\ \E name \in ModeNames :
          last' = [op |-> "create_from_name", name |-> name,
                   result |-> create_from_name(name)]
    /\ io' = <<>>
    /\ UNCHANGED <<usb, attached, devices, next_handle, call>>

---------------------------------------------------------------------------
(* The set-mode command (__main__.py).                                     *)

\* the devices Command.choose_device offers at the prompt: value, the text
\* given with --serial or "None", is not used
choose_device_choices(value, registry) == Range(registry)

\* the value of --serial on the command line
SerialOptions == {"None"} \cup {usb[d].serial_number : d \in DOMAIN usb}

\* click starts the command: the callback choose_device makes a manager
\* and scans.  click.Choice admits the names of Mode only
CliChooseDevice ==
    /\ call = Idle
    /\ \E value \in SerialOptions : \E mode \in {k.name : k \in Range(Mode)} :
       \E found \in FindResults :
          LET st == update_device_list(Manager(<<>>), found)
          IN  /\ devices' = st.devices
              /\ next_handle' = st.next_handle
              /\ io' = st.io
              /\ call' = [pc |-> "prompt", value |-> value, mode |-> mode]
              /\ last' = [op |-> "choose_device", found |-> found,
                          result |-> Outcome(st)]
    /\ UNCHANGED <<usb, attached>>

\* prompt_device_list: the user picks one of the choices, or interrupts.
\* With no choice to offer the prompt cannot give a device
CliPrompt ==
    /\ call.pc = "prompt"
    /\ \/ \E device \in choose_device_choices(call.value, devices) :
             /\ call' = [pc |-> "chosen", value |-> call.value, mode |-> call.mode,
                         device |-> device]
             /\ last' = [op |-> "prompt_device_list", result |-> Return(None)]
       \/ /\ call' = [pc |-> "failed", value |-> call.value, mode |-> call.mode,
                      exc |-> "NoIDeviceSelectedError"]
          /\ last' = [op |-> "prompt_device_list",
                      result |-> Raise("NoIDeviceSelectedError")]
    /\ UNCHANGED <<usb, attached, devices, next_handle, io>>

\* cli_set_mode: device.mode = Mode.create_from_name(mode)
CliSetMode ==
    /\ call.pc = "chosen"
    /\ \E status \in TransferStatus :
          LET k == create_from_name(call.mode)
              r == IF k.kind = "raise" THEN [calls |-> <<>>, result |-> k]
                   ELSE mode_set(call.device, k.value, status)
          IN  /\ io' = io \o r.calls
              /\ last' = [op |-> "cli_set_mode", result |-> r.result]
              /\ call' = [pc |-> "done", value |-> call.value, mode |-> call.mode,
                          device |-> call.device]
    /\ UNCHANGED <<usb, attached, devices, next_handle>>

\* the process ends
CliExit ==
    /\ call.pc \in {"done", "failed"}
    /\ call' = Idle
    /\ devices' = <<>>
    /\ io' = <<>>
    /\ next_handle' = 1
    /\ last' = [op |-> "exit"]
    /\ UNCHANGED <<usb, attached>>

---------------------------------------------------------------------------
(* Specifications.                                                         *)

\* the devices of the manager and CLI specifications: two Apple devices
Universe ==
    <<Device(VID_APPLE, 4776, "A", InitialDesc),
      Device(VID_APPLE, PID_APPLE_SILICON_RESTORE_LOW, "B", InitialDesc)>>

Fresh ==
    /\ devices = <<>>
    /\ next_handle = 1
    /\ io = <<>>
    /\ last = [op |-> "init"]
    /\ call = Idle

\* a manager over a bus that devices join and leave
Init ==
    /\ usb = Universe
    /\ attached = <<>>
    /\ Fresh

Next ==
    \/ Attach \/ Detach
    \/ NewManager \/ Scan

Spec == Init /\ [][Next]_vars

\* the handles of a manager over a bus of two devices whose descriptors
\* change
InitDevice ==
    /\ usb = Universe
    /\ attached = <<1, 2>>
    /\ Fresh

NextDevice ==
    \/ OutOfBand
    \/ Scan \/ ReadMode \/ SetMode
    \/ ReprTest \/ ReprRead \/ ReprFormat

SpecDevice == InitDevice /\ [][NextDevice]_vars

\* the set-mode command over a bus that devices join and leave
NextCli ==
    \/ Attach \/ Detach
    \/ CliChooseDevice \/ CliPrompt \/ CliSetMode \/ CliExit

SpecCli == Init /\ [][NextCli]_vars

\* the classifier on a handle, for every descriptor tree within the bounds
Triples ==
    {Interface(c, sc, pr) : c \in {255, 2}, sc \in {42, 254, 13}, pr \in {255, 2}}

\* what the configurations other than the fifth hold
Fillers == {<<>>, <<ValeriaIf, CdcNcmIf, UsbmuxIf>>}

\* n configurations holding filler, the fifth (when there is one) holding ifs
Tree(n, filler, ifs) ==
    [i \in 1..n |-> IF i = 5 THEN Config(ifs) ELSE Config(filler)]

\* a manager that has scanned the one attached device, whose descriptors are
\* any tree of up to MaxConfigs configurations with up to MaxIfaces
\* interfaces in the fifth
InitMode ==
    /\ \E n \in 0..MaxConfigs : \E filler \in Fillers :
       \E k \in 0..(IF n >= 5 THEN MaxIfaces ELSE 0) :
       \E ifs \in [1..k -> Triples] :
          usb = <<Device(VID_APPLE, 4776, "A", Tree(n, filler, ifs))>>
    /\ attached = <<1>>
    /\ LET st == update_device_list(
                    [devices |-> <<>>, next_handle |-> 1, io |-> <<>>, exc |-> "-"],
                    [is_none |-> FALSE, items |-> <<1>>])
       IN  /\ devices = st.devices
           /\ next_handle = st.next_handle
           /\ io = st.io
           /\ last = [op |-> "update_device_list",
                      found |-> [is_none |-> FALSE, items |-> <<1>>],
                      result |-> Outcome(st)]
    /\ call = Idle

NextMode == ReadMode

SpecMode == InitMode /\ [][NextMode]_vars

\* the scanners on every bus within the bounds: Apple devices with the
\* product IDs at and next to the ends of the ranges, and devices of another
\* vendor with product IDs inside and outside the ranges
ScanKinds ==
    {<<VID_APPLE, p>> :
        p \in {4096, PID_RANGE_LOW - 1, PID_RANGE_LOW, PID_RANGE_MAX,
               PID_RANGE_MAX + 1, PID_APPLE_SILICON_RESTORE_LOW - 1,
               PID_APPLE_SILICON_RESTORE_LOW, PID_APPLE_SILICON_RESTORE_MAX,
               PID_APPLE_SILICON_RESTORE_MAX + 1, PID_APPLE_T2_COPROCESSOR}}
    \cup {<<VID_APPLE - 1, p>> :
        p \in {4096, PID_RANGE_LOW, PID_APPLE_SILICON_RESTORE_LOW,
               PID_APPLE_T2_COPROCESSOR}}

ScanSerials == <<"A", "B", "C", "D", "E", "F">>

\* a bus of up to MaxScanList devices of the given kinds; the i-th device
\* has one of the first i serial numbers, so that every pattern of equal and
\* distinct serial numbers occurs
Bus(kindset) ==
    \E n \in 0..MaxScanList :
    \E kinds \in [1..n -> kindset] :
    \E serials \in [1..n -> 1..n] :
       /\ \A i \in 1..n : serials[i] <= i
       /\ usb = [i \in 1..n |->
                   Device(kinds[i][1], kinds[i][2], ScanSerials[serials[i]],
                          InitialDesc)]
       /\ attached = [i \in 1..n |-> i]

InitScan == Bus(ScanKinds) /\ Fresh

NextScan == Scan

SpecScan == InitScan /\ [][NextScan]_vars

\* both scanners on a bus of accepted and rejected devices
DiscoverKinds ==
    {<<VID_APPLE, PID_RANGE_LOW>>, <<VID_APPLE, PID_APPLE_T2_COPROCESSOR>>,
     <<VID_APPLE, 4096>>, <<VID_APPLE - 1, PID_APPLE_T2_COPROCESSOR>>}

InitDiscover == Bus(DiscoverKinds) /\ Fresh

NextDiscover == Scan \/ Discover

SpecDiscover == InitDiscover /\ [][NextDiscover]_vars

\* create_from_name on every name of ModeNames
NextName == CreateFromName

SpecName == Init /\ [][NextName]_vars

---------------------------------------------------------------------------
(* Properties.                                                             *)

\* the classification as the specification gives it: it reads the number of
\* configurations n and the interfaces ifs of configuration index 4 only
Has(ifs, c, sc, protocols) ==
    \E i \in DOMAIN ifs :
        /\ ifs[i].bInterfaceClass = c
        /\ ifs[i].bInterfaceSubClass = sc
        /\ ifs[i].bInterfaceProtocol \in protocols

Classify(n, ifs) ==
    CASE n <= 4 -> INITIAL
      [] n = 5 /\ Has(ifs, 255, 42, {255}) /\ Has(ifs, 255, 254, {2}) -> VALERIA
      [] n = 5 /\ ~(Has(ifs, 255, 42, {255}) /\ Has(ifs, 255, 254, {2}))
               /\ Has(ifs, 2, 13, 0..255) /\ Has(ifs, 255, 254, {2}) -> CDC_NCM
      [] OTHER -> None

ClassifyDevice(cs) ==
    Classify(Len(cs), IF Len(cs) >= 5 THEN cs[5].interfaces ELSE <<>>)

IsTransfer(c) == c.op = "ctrl_transfer"

Accepted(d) ==
    /\ usb[d].idVendor = 1452
    /\ \/ usb[d].idProduct = 34304
       \/ usb[d].idProduct \in 6401..6405
       \/ usb[d].idProduct \in 4752..4783

InRegistry(d) == \E s \in DOMAIN devices : devices[s].usb_device = d

DistinctSerials ==
    \A i, j \in DOMAIN attached :
        i # j => usb[attached[i]].serial_number # usb[attached[j]].serial_number

\* C2: after update_device_list on a bus of devices with distinct serial
\* numbers the registry holds a device exactly when its vendor ID is 0x05AC
\* and its product ID is 0x8600 or in 0x1901..0x1905 or in 0x1290..0x12AF;
\* whatever the serial numbers, a device of another vendor or with product
\* 0x1000 is never in the registry.
C2_RegistryIsFilter ==
    last.op = "update_device_list" =>
        /\ DistinctSerials =>
              \A d \in Range(attached) : InRegistry(d) <=> Accepted(d)
        /\ \A s \in DOMAIN devices :
              /\ Accepted(devices[s].usb_device)
              /\ devices[s].usb_device \in Range(attached)

\* C2 witness: a scan of an Apple device with product 0x8600 and an Apple
\* device with product 0x1000; the registry holds the first alone
C2_Witness ==
    /\ last.op = "update_device_list"
    /\ Len(attached) = 2
    /\ DistinctSerials
    /\ usb[attached[1]].idVendor = 1452 /\ usb[attached[1]].idProduct = 4096
    /\ usb[attached[2]].idVendor = 1452 /\ usb[attached[2]].idProduct = 34304
    /\ InRegistry(attached[2]) /\ ~InRegistry(attached[1])

\* C3: assigning a Mode m to IDevice.mode issues exactly one control
\* transfer, to that device, with bmRequestType 0xC0, bRequest 0x52,
\* wValue 0, wIndex the integer value of m, wLength 1 given as a length (no
\* data buffer) and the default timeout.
C3_SetModeTransfer ==
    last.op = "mode_set" =>
        /\ Len(io) = 1
        /\ io[1].op = "ctrl_transfer"
        /\ io[1].dev = last.self.usb_device
        /\ io[1].bmRequestType = 192
        /\ io[1].bRequest = 82
        /\ io[1].wValue = 0
        /\ io[1].wIndex = last.value.value
        /\ io[1].wIndex = CASE last.value.name = "INITIAL" -> 1
                            [] last.value.name = "VALERIA" -> 2
                            [] last.value.name = "CDC_NCM" -> 3
        /\ io[1].data_or_wLength = 1
        /\ io[1].timeout = "None"

\* C3 witness: VALERIA was assigned and the transfer carries wIndex 2
C3_Witness ==
    /\ last.op = "mode_set"
    /\ last.value = VALERIA
    /\ Len(io) = 1 /\ io[1].wIndex = 2 /\ io[1].bRequest = 82

\* C4 as stated: a scan while enumeration yields no device completes
\* without raising and leaves the registry empty, on a first scan and on a
\* re-scan alike.
C4_EmptyScanEmptiesRegistry ==
    (last.op = "update_device_list" /\ last.found.items = <<>>) =>
        /\ last.result.kind = "return"
        /\ devices = <<>>

\* C4 amended: a scan while enumeration yields no device (an empty list or
\* None) completes without raising and leaves the registry as it was: empty
\* on a first scan, with the entries of the earlier scans on a re-scan.
C4_EmptyScanKeepsRegistry ==
    [][(last'.op = "update_device_list" /\ last'.found.items = <<>>) =>
          /\ last'.result.kind = "return"
          /\ devices' = devices
          /\ (devices = <<>> => devices' = <<>>)]_vars

\* C4 witness: a re-scan of an empty bus, after which the registry still
\* holds an entry
C4_Witness ==
    /\ last.op = "update_device_list"
    /\ last.found.items = <<>>
    /\ last.result.kind = "return"
    /\ devices # <<>>

IsModeName(name) == \E k \in Range(Mode) : k.name = name

\* C5 as stated: create_from_name gives the member of that name, and fails
\* with InvalidModeNameError for every other string.
C5_InvalidModeNameError ==
    last.op = "create_from_name" =>
        /\ \A k \in Range(Mode) : last.name = k.name => last.result = Return(k)
        /\ ~IsModeName(last.name) =>
              /\ last.result.kind = "raise"
              /\ last.result.exc = "InvalidModeNameError"

\* C5 amended: create_from_name gives the member of that name, and for every
\* other string returns no Mode and fails with ValueError.
C5_CreateFromName ==
    last.op = "create_from_name" =>
        /\ \A k \in Range(Mode) : last.name = k.name => last.result = Return(k)
        /\ ~IsModeName(last.name) =>
              /\ last.result.kind = "raise"
              /\ last.result.value = None
              /\ last.result.exc = "ValueError"

\* C5 witness: a name that differs from a member's name in case only failed
C5_Witness ==
    /\ last.op = "create_from_name"
    /\ last.name = "initial"
    /\ last.result = Raise("ValueError")

\* C6: every read of IDevice.mode returns the classification of the
\* descriptors as they are at that read, whatever was read or requested
\* before, and the read changes nothing: no control transfer, the device,
\* the bus and the registry as they were.
C6_ModeNeverCached ==
    [][last'.op = "mode_get" =>
          /\ last'.result =
                Return(ClassifyDevice(usb'[last'.self.usb_device].configurations))
          /\ SelectSeq(io', IsTransfer) = <<>>
          /\ usb' = usb
          /\ attached' = attached
          /\ devices' = devices
          /\ next_handle' = next_handle]_vars

\* C6 witness: the second read of a repr gave None, where its first read,
\* a step earlier, gave a Mode: the descriptors changed in between
C6_Witness ==
    /\ call.pc = "repr_140"
    /\ last.op = "mode_get"
    /\ last.result.value = None

Targets(calls) ==
    LET ts == SelectSeq(calls, IsTransfer)
    IN  [i \in 1..Len(ts) |-> ts[i].dev]

\* C7: the set-mode command issues its transfer to the selected device and
\* to no other: the device of the serial given with --serial when there is
\* one, else the device picked at the prompt; when the prompt is aborted it
\* fails with the error of no device selected (NoIDeviceSelectedError in
\* the code) and issues no transfer.
C7_SetModeTargetsSelected ==
    /\ (call.pc = "done" /\ call.value # "None" /\ call.value \in DOMAIN devices)
          => Targets(io) = <<devices[call.value].usb_device>>
    /\ (call.pc = "done" /\ call.value = "None")
          => Targets(io) = <<call.device.usb_device>>
    /\ call.pc = "failed"
          => (call.exc = "NoIDeviceSelectedError" /\ Targets(io) = <<>>)

SerialOf(d) == usb[d].serial_number

\* C8: a re-scan only overwrites or adds entries: no key is lost, a serial
\* the scan saw maps to a handle that scan created, every other entry is
\* the one that was there, and every key is the serial number of the device
\* its handle wraps.
C8_RescanOverwritesOrAdds ==
    [][last'.op = "update_device_list" =>
          /\ DOMAIN devices \subseteq DOMAIN devices'
          /\ \A s \in DOMAIN devices' :
                /\ SerialOf(devices'[s].usb_device) = s
                /\ IF \E d \in Range(last'.found.items) : SerialOf(d) = s
                   THEN /\ devices'[s].hid >= next_handle
                        /\ devices'[s].hid < next_handle'
                        /\ devices'[s].usb_device \in Range(last'.found.items)
                   ELSE s \in DOMAIN devices /\ devices'[s] = devices[s]]_vars

\* C8 witness: after a scan the registry holds an entry whose device is no
\* longer attached, beside an entry whose handle is not the first made for
\* its device
C8_Witness ==
    /\ last.op = "update_device_list"
    /\ \E s \in DOMAIN devices : devices[s].usb_device \notin Range(attached)
    /\ \E s \in DOMAIN devices :
          /\ devices[s].usb_device \in Range(attached)
          /\ devices[s].hid > Len(usb)

\* C9: a set-mode request makes exactly one transfer attempt, succeed or
\* fail; a failure the transport reports reaches the caller as it is; no
\* mode is read back and the registry is left as it was.
C9_NoRetry ==
    [][last'.op = "mode_set" =>
          /\ Len(io') = 1
          /\ io'[1].op = "ctrl_transfer"
          /\ io'[1].status = "ok" => last'.result.kind = "return"
          /\ io'[1].status # "ok" => last'.result = Raise(io'[1].status)
          /\ devices' = devices
          /\ next_handle' = next_handle]_vars

\* C9 witness: a set-mode request whose transfer stalled: one attempt, and
\* the caller got the stall
C9_Witness ==
    /\ last.op = "mode_set"
    /\ Len(io) = 1
    /\ io[1].status = "stall"
    /\ last.result = Raise("stall")

IsScan == last.op \in {"update_device_list", "discover"}

\* C10 as stated: a scan, update_device_list and discover alike, issues no
\* control transfer, sets no configuration and detaches no kernel driver on
\* any device, and does not fail.
C10_ScanHasNoSideEffect ==
    IsScan =>
        /\ \A i \in DOMAIN io :
              io[i].op \notin {"ctrl_transfer", "set_configuration",
                               "detach_kernel_driver"}
        /\ last.op = "update_device_list" => last.result.kind = "return"

AcceptedOnBus == SelectSeq(attached, Accepted)

\* C10 amended: update_device_list makes no call on any device and does not
\* fail; discover sets no configuration and detaches no kernel driver, but
\* issues one get-mode control transfer (bmRequestType 0xC0, bRequest 0x45,
\* wValue 0, wIndex 0, wLength 4) to each accepted device in bus order, up
\* to the first that fails, and none to a rejected device.
C10_ScanSideEffects ==
    /\ last.op = "update_device_list" =>
          (io = <<>> /\ last.result.kind = "return")
    /\ last.op = "discover" =>
          /\ \A i \in DOMAIN io :
                /\ io[i].op = "ctrl_transfer"
                /\ io[i].bmRequestType = 192
                /\ io[i].bRequest = 69
                /\ io[i].wValue = 0
                /\ io[i].wIndex = 0
                /\ io[i].data_or_wLength = 4
                /\ i < Len(io) => io[i].status = "ok"
          /\ Len(io) <= Len(AcceptedOnBus)
          /\ Targets(io) = SubSeq(AcceptedOnBus, 1, Len(io))
          /\ last.result.kind = "return" => Len(io) = Len(AcceptedOnBus)
          /\ last.result.kind = "raise" =>
                (io # <<>> /\ last.result.exc = io[Len(io)].status)

\* C10 witness: discover on a bus of an accepted and a rejected device
\* issued its one transfer, to the accepted one
C10_Witness ==
    /\ last.op = "discover"
    /\ Len(attached) = 2
    /\ Len(io) = 1
    /\ Accepted(io[1].dev)
    /\ \E d \in Range(attached) : ~Accepted(d)

====
